---- MODULE Spec2Model ----
(***************************************************************************)
(* Model of homework.py: a polling client that asks the review API for the *)
(* status of a homework and forwards the verdict to one Telegram chat.     *)
(*                                                                         *)
(* The Cyrillic string literals of the source are written here in English  *)
(* (the module's strings are ASCII); two literals are equal here exactly    *)
(* when they are equal in the source.                                      *)
(***************************************************************************)
EXTENDS Integers, Sequences, FiniteSets, TLC

(* ------------------------------ bounds -------------------------------- *)
\* number of poll cycles explored
MaxCycles == 3
\* number of homework records after element 0 in a response
MaxTail == 1
\* calls of parse_status on one record that are followed
MaxCalls == 3

(* --------------------------- program constants ------------------------ *)
RETRY_PERIOD == 600
HTTP_OK == 200

\* HOMEWORK_VERDICTS, as a function over its keys
HOMEWORK_VERDICTS ==
    [s \in {"approved", "reviewing", "rejected"} |->
        CASE s = "approved"  -> "Work reviewed: the reviewer liked everything. Hooray!"
          [] s = "reviewing" -> "Work taken for review by the reviewer."
          [] s = "rejected"  -> "Work reviewed: the reviewer has remarks."]

(* ----------------------------- values --------------------------------- *)
\* Python's None (an unset environment variable, dict.get of a missing key)
None == "<None>"
\* a key that a dict does not hold
Absent == "<absent>"
\* a JSON array or object where a string was expected: not hashable
Unhashable == "<list>"

\* truthiness of a str-or-None value (all(), `not`)
Truthy(v) == v # None /\ v # ""

\* An exception object: its class and str(error).  str(None) is "None".
Exc(type, text) == [type |-> type, text |-> text]
NoError == Exc("NoneType", "None")
\* str(KeyError(x)) is repr(x): the text in single quotes
KeyErrorOf(text) == Exc("KeyError", "'" \o text \o "'")

\* Classes of the exceptions module; the module is imported by homework.py and
\* every class of it is raised with one message and caught by `except Exception`.
CustomExceptions ==
    {"MissingEnviromentVariable", "SendMessageError", "GetRequestError",
     "StatusCodeNotOK", "JsonConvertingError", "NoMatchStatusHomework",
     "IncorrectHomeworkStatus"}
\* what `except Exception` catches
IsException(e) == e.type \in CustomExceptions \cup {"KeyError", "TypeError"}

\* result of a call: a returned value or a raised exception, with the log
\* records the call emitted
Return(v, logs) == [ok |-> TRUE, value |-> v, error |-> NoError, logs |-> logs]
Raise(e, logs) == [ok |-> FALSE, value |-> None, error |-> e, logs |-> logs]
LogRec(level, by, msg) == [level |-> level, by |-> by, msg |-> msg]

(* ------------------------------ inputs -------------------------------- *)
EnvValues == {None, "", "token"}
Envs == [PRACTICUM_TOKEN : EnvValues, TELEGRAM_TOKEN : EnvValues,
         TELEGRAM_CHAT_ID : EnvValues]

StartTimes == {1700000000, 1700000001}
Dates == {1700000600}

NameValues == {Absent, "", "lab1"}
StatusValues == {Absent, "approved", "reviewing", "rejected", "unknown", Unhashable}

\* an element of 'homeworks': a dict with some of the two keys, or a JSON string
Homework(n, s) == [type |-> "dict", homework_name |-> n, status |-> s]
NonDictHomework == [type |-> "str", homework_name |-> Absent, status |-> Absent]
Homeworks == {Homework(n, s) : n \in NameValues, s \in StatusValues}
                \cup {NonDictHomework}
\* the records that follow element 0
TailHomeworks == {NonDictHomework, Homework("lab2", "approved"),
                  Homework("lab2", "unknown")}

RECURSIVE SeqsUpTo(_, _)
SeqsUpTo(S, n) ==
    IF n = 0 THEN {<<>>}
    ELSE LET shorter == SeqsUpTo(S, n - 1)
         IN shorter \cup {Append(q, x) : q \in shorter, x \in S}

\* the first records that are also tried with records after them
HeadsWithTail == {Homework("lab1", "approved"), Homework("lab1", "rejected"),
                  Homework("lab1", "unknown"), Homework(Absent, "rejected"),
                  NonDictHomework}
HomeworkLists ==
    {<<>>} \cup {<<h>> : h \in Homeworks}
    \cup {<<h>> \o t : h \in HeadsWithTail, t \in SeqsUpTo(TailHomeworks, MaxTail)}

\* the arguments parse_status is called with on its own: every combination of
\* the two keys, and values that are no dict
ParseNames == {Absent, "", "lab1", "lab2"}
ParseStatuses == {Absent, "", "approved", "reviewing", "rejected", "unknown", Unhashable}
NonDictTypes == {"str", "list", "NoneType"}
ParseHomeworks ==
    {Homework(n, s) : n \in ParseNames, s \in ParseStatuses}
    \cup {[NonDictHomework EXCEPT !.type = t] : t \in NonDictTypes}

\* a decoded JSON body.  type: "dict" or "list" (a body that is no dict);
\* keys: the keys the dict holds; homeworks_type: "list" or "str".
Body(type, keys, hwtype, hws, date) ==
    [type |-> type, keys |-> keys, homeworks_type |-> hwtype,
     homeworks |-> hws, current_date |-> date]
NoBody == Body("unset", {}, "list", <<>>, 0)
Bodies ==
    {Body("list", {}, "list", <<>>, 0)}
    \cup {Body("dict", {}, "list", <<>>, 0)}
    \cup {Body("dict", {"current_date"}, "list", <<>>, d) : d \in Dates}
    \cup {Body("dict", {"homeworks"}, "str", <<>>, 0)}
    \cup {Body("dict", {"homeworks"}, "list", l, 0) :
              l \in {<<>>, <<Homework("lab1", "approved")>>}}
    \cup {Body("dict", {"homeworks", "current_date"}, "str", <<>>, d) : d \in Dates}
    \cup {Body("dict", {"homeworks", "current_date"}, "list", l, d) :
              l \in HomeworkLists, d \in Dates}

\* the decodable body of an error page
ErrorBody == Body("dict", {}, "list", <<>>, 0)
\* what requests.get does: a transport failure, or a response with a status
\* code and a body that response.json() decodes or not
StatusCodes == {HTTP_OK, 404, 500}
Http(transport, code, decodable, body) ==
    [transport_ok |-> transport, status_code |-> code,
     decodable |-> decodable, body |-> body]
\* no request made yet
NoHttp == Http(FALSE, 0, FALSE, NoBody)
HttpResults ==
    {NoHttp}
    \cup {Http(TRUE, c, FALSE, NoBody) : c \in StatusCodes}
    \cup {Http(TRUE, c, TRUE, ErrorBody) : c \in StatusCodes \ {HTTP_OK}}
    \cup {Http(TRUE, HTTP_OK, TRUE, b) : b \in Bodies}

(* ----------------------------- functions ------------------------------ *)
\* variant: any() where the source has all()
check_tokens_any(env) ==
    LET list_env_vars == <<env.PRACTICUM_TOKEN, env.TELEGRAM_CHAT_ID, env.TELEGRAM_TOKEN>>
    IN IF ~(\E i \in 1..3 : Truthy(list_env_vars[i]))
       THEN Raise(Exc("MissingEnviromentVariable", "Missing environment variable"),
                  <<LogRec("CRITICAL", "check_tokens", "Missing environment variable")>>)
       ELSE Return(TRUE, <<>>)

check_tokens(env) ==
    LET list_env_vars == <<env.PRACTICUM_TOKEN, env.TELEGRAM_CHAT_ID, env.TELEGRAM_TOKEN>>
    IN IF ~(\A i \in 1..3 : Truthy(list_env_vars[i]))
       THEN Raise(Exc("MissingEnviromentVariable", "Missing environment variable"),
                  <<LogRec("CRITICAL", "check_tokens", "Missing environment variable")>>)
       ELSE Return(TRUE, <<>>)

\* variant: response.json() called before the status code is tested
get_api_answer_json_first(http) ==
    IF ~http.transport_ok
    THEN Raise(Exc("GetRequestError", "Failure while requesting the endpoint"), <<>>)
    ELSE IF ~http.decodable
    THEN Raise(Exc("JsonConvertingError", "Error while representing json"), <<>>)
    ELSE IF http.status_code # HTTP_OK
    THEN Raise(Exc("StatusCodeNotOK",
                   "Request status is not OK! Request status: "
                       \o ToString(http.status_code)), <<>>)
    ELSE Return(http.body, <<>>)

get_api_answer(http) ==
    IF ~http.transport_ok
    THEN Raise(Exc("GetRequestError", "Failure while requesting the endpoint"), <<>>)
    ELSE IF http.status_code # HTTP_OK
    THEN Raise(Exc("StatusCodeNotOK",
                   "Request status is not OK! Request status: "
                       \o ToString(http.status_code)), <<>>)
    ELSE IF ~http.decodable
    THEN Raise(Exc("JsonConvertingError", "Error while representing json"), <<>>)
    ELSE Return(http.body, <<>>)

\* homeworks[0]['status'] not in HOMEWORK_VERDICTS
FirstStatusLookup(h) ==
    IF h.type # "dict"
    THEN Raise(Exc("TypeError", "string indices must be integers"), <<>>)
    ELSE IF h.status = Absent
    THEN Raise(KeyErrorOf("status"), <<>>)
    ELSE IF h.status = Unhashable
    THEN Raise(Exc("TypeError", "unhashable type: 'list'"), <<>>)
    ELSE Return(h.status \notin DOMAIN HOMEWORK_VERDICTS, <<>>)

\* variant: `if not homeworks` where the source has `not isinstance(homeworks, list)`
check_homeworks_falsy(hwtype, homeworks, try) ==
    IF hwtype # "list" \/ Len(homeworks) = 0
    THEN Raise(Exc("TypeError", "API response key value is not a list"), try)
    ELSE LET look == FirstStatusLookup(homeworks[1])
         IN IF ~look.ok THEN Raise(look.error, try)
            ELSE IF look.value
            THEN Raise(Exc("NoMatchStatusHomework",
                           "Unknown homework status in the API response"), try)
            ELSE Return(TRUE, try \o
                     <<LogRec("INFO", "check_response", "Checking the API response: OK")>>)

\* variant: the status of every record is tested, not that of homeworks[0] alone
check_homeworks_all(hwtype, homeworks, try) ==
    IF hwtype # "list"
    THEN Raise(Exc("TypeError", "API response key value is not a list"), try)
    ELSE IF Len(homeworks) > 0
    THEN LET bad == {i \in 1..Len(homeworks) :
                        \/ ~FirstStatusLookup(homeworks[i]).ok
                        \/ FirstStatusLookup(homeworks[i]).value}
         IN IF bad # {}
            THEN LET i == CHOOSE j \in bad : \A k \in bad : j <= k
                     look == FirstStatusLookup(homeworks[i])
                 IN IF ~look.ok THEN Raise(look.error, try)
                    ELSE Raise(Exc("NoMatchStatusHomework",
                                   "Unknown homework status in the API response"), try)
            ELSE Return(TRUE, try \o
                     <<LogRec("INFO", "check_response", "Checking the API response: OK")>>)
    ELSE Return(FALSE, try \o
             <<LogRec("INFO", "check_response",
                      "Checking the API response: OK (No changes)")>>)

\* check_response, lines 93-105: the checks on the value of 'homeworks'
check_homeworks(hwtype, homeworks, try) ==
    IF hwtype # "list"
    THEN Raise(Exc("TypeError", "API response key value is not a list"), try)
    ELSE IF Len(homeworks) > 0
    THEN LET look == FirstStatusLookup(homeworks[1])
         IN IF ~look.ok THEN Raise(look.error, try)
            ELSE IF look.value
            THEN Raise(Exc("NoMatchStatusHomework",
                           "Unknown homework status in the API response"), try)
            ELSE Return(TRUE, try \o
                     <<LogRec("INFO", "check_response", "Checking the API response: OK")>>)
    ELSE Return(FALSE, try \o
             <<LogRec("INFO", "check_response",
                      "Checking the API response: OK (No changes)")>>)

\* variant: the isinstance check placed before response['current_date']
check_response_type_first(response) ==
    LET try == <<LogRec("INFO", "check_response", "Checking the API response: TRY")>>
    IN IF response.type # "dict"
       THEN Raise(Exc("TypeError", "list indices must be integers or slices, not str"), try)
       ELSE IF "homeworks" \notin response.keys
       THEN Raise(KeyErrorOf("Expected keys are missing in the API response"), try)
       ELSE IF response.homeworks_type # "list"
       THEN Raise(Exc("TypeError", "API response key value is not a list"), try)
       ELSE IF "current_date" \notin response.keys
       THEN Raise(KeyErrorOf("Expected keys are missing in the API response"), try)
       ELSE check_homeworks(response.homeworks_type, response.homeworks, try)

\* check_response: the key lookups of lines 87-92, then the checks on 'homeworks'.
\* Subscripting a body that is no dict raises TypeError, which line 91 does not catch.
check_response(response) ==
    LET try == <<LogRec("INFO", "check_response", "Checking the API response: TRY")>>
    IN IF response.type # "dict"
       THEN Raise(Exc("TypeError", "list indices must be integers or slices, not str"), try)
       ELSE IF "homeworks" \notin response.keys \/ "current_date" \notin response.keys
       THEN Raise(KeyErrorOf("Expected keys are missing in the API response"), try)
       ELSE check_homeworks(response.homeworks_type, response.homeworks, try)

\* the f-string of parse_status
Render(homework_name, verdict) ==
    "Changed review status for " \o "\"" \o homework_name \o "\". " \o verdict

\* variant: the status code put in the message where the source puts the verdict
parse_status_raw_status(homework) ==
    IF homework.type = "dict"
    THEN IF homework.homework_name = Absent
         THEN Raise(KeyErrorOf("homework lacks the key homework_name"), <<>>)
         ELSE IF homework.status = Absent
         THEN Raise(KeyErrorOf("homework lacks the key status"), <<>>)
         ELSE IF homework.status = Unhashable
         THEN Raise(Exc("TypeError", "unhashable type: 'list'"), <<>>)
         ELSE LET homework_name == homework.homework_name
                  verdict == IF homework.status \in DOMAIN HOMEWORK_VERDICTS
                             THEN homework.status ELSE None
              IN IF ~(Truthy(homework_name) /\ Truthy(verdict))
                 THEN Raise(Exc("IncorrectHomeworkStatus",
                                "Empty or undocumented homework status"), <<>>)
                 ELSE Return(Render(homework_name, verdict), <<>>)
    ELSE Raise(Exc("TypeError", "homework is not a dict"), <<>>)

\* variant: the name taken as it is, not tested for presence or emptiness
parse_status_no_name_check(homework) ==
    IF homework.type = "dict"
    THEN IF homework.status = Absent
         THEN Raise(KeyErrorOf("homework lacks the key status"), <<>>)
         ELSE IF homework.status = Unhashable
         THEN Raise(Exc("TypeError", "unhashable type: 'list'"), <<>>)
         ELSE LET homework_name == IF homework.homework_name = Absent
                                   THEN "None" ELSE homework.homework_name
                  verdict == IF homework.status \in DOMAIN HOMEWORK_VERDICTS
                             THEN HOMEWORK_VERDICTS[homework.status] ELSE None
              IN IF ~Truthy(verdict)
                 THEN Raise(Exc("IncorrectHomeworkStatus",
                                "Empty or undocumented homework status"), <<>>)
                 ELSE Return(Render(homework_name, verdict), <<>>)
    ELSE Raise(Exc("TypeError", "homework is not a dict"), <<>>)

parse_status(homework) ==
    IF homework.type = "dict"
    THEN IF homework.homework_name = Absent
         THEN Raise(KeyErrorOf("homework lacks the key homework_name"), <<>>)
         ELSE IF homework.status = Absent
         THEN Raise(KeyErrorOf("homework lacks the key status"), <<>>)
         ELSE IF homework.status = Unhashable
         THEN Raise(Exc("TypeError", "unhashable type: 'list'"), <<>>)
         ELSE LET homework_name == homework.homework_name
                  verdict == IF homework.status \in DOMAIN HOMEWORK_VERDICTS
                             THEN HOMEWORK_VERDICTS[homework.status] ELSE None
              IN IF ~(Truthy(homework_name) /\ Truthy(verdict))
                 THEN Raise(Exc("IncorrectHomeworkStatus",
                                "Empty or undocumented homework status"), <<>>)
                 ELSE Return(Render(homework_name, verdict), <<>>)
    ELSE Raise(Exc("TypeError", "homework is not a dict"), <<>>)

\* bot_ok: whether bot.send_message returned (TRUE) or raised (FALSE)
send_message(bot_ok, message) ==
    IF bot_ok
    THEN Return(None, <<LogRec("DEBUG", "send_message",
                               "Message sent to telegram successfully")>>)
    ELSE Raise(Exc("SendMessageError", "Failure sending message to chat"),
               <<LogRec("ERROR", "send_message", "Failure sending message to chat")>>)

(* ------------------------------- state -------------------------------- *)
VARIABLES
    env,         \* the three module-level configuration values
    http_response, \* what requests.get did in the latest get_api_answer call
    pc,          \* the statement of main() that runs next
    timestamp,   \* main's local `timestamp` (0 before line 137)
    last_error,  \* main's local `last_error` (NoError is None)
    answer,      \* main's local `answer` (NoBody before the first fetch)
    error,       \* the exception in flight (NoError when none)
    message,     \* the value of parse_status(...) awaiting send_message
    n_fetch,     \* number of get_api_answer calls so far
    from_date,   \* the from_date parameter of the latest request
    slept,       \* seconds spent in time.sleep so far
    trace,       \* the calls of the current cycle, in order
    bot_sent,    \* the messages handed to bot.send_message in the current cycle
    log,         \* the log records of the current cycle (of startup before it)
    caught,      \* the exception main's handler received in the current cycle
    prev         \* the previous cycle: what was caught, whether main logged it,
                 \* and last_error as that cycle left it

vars == <<env, http_response, pc, timestamp, last_error, answer, error, message, n_fetch,
          from_date, slept, trace, bot_sent, log, caught, prev>>

\* main's handler wrote an error record in these log records
MainLogged(records) ==
    \E i \in 1..Len(records) : records[i].by = "main" /\ records[i].level = "ERROR"

Init ==
    /\ env \in Envs
    /\ http_response = NoHttp
    /\ pc = "main"
    /\ timestamp = 0
    /\ last_error = NoError
    /\ answer = NoBody
    /\ error = NoError
    /\ message = None
    /\ n_fetch = 0
    /\ from_date = 0
    /\ slept = 0
    /\ trace = <<>>
    /\ bot_sent = <<>>
    /\ log = <<>>
    /\ caught = NoError
    /\ prev = [caught |-> NoError, logged |-> FALSE, last_error |-> NoError]

(* ------------------------------ actions ------------------------------- *)
\* main(), lines 129-138: check_tokens, the bot, the timestamp, last_error.
\* The exception of check_tokens is raised outside the try statement and
\* ends the process.
MainStart ==
    /\ pc = "main"
    /\ LET r == check_tokens(env)
       IN /\ log' = log \o r.logs
          /\ trace' = Append(trace, "check_tokens")
          /\ IF ~r.ok
             THEN /\ pc' = "terminated"
                  /\ error' = r.error
                  /\ UNCHANGED <<timestamp, last_error>>
             ELSE IF ~r.value
             THEN /\ pc' = "terminated"
                  /\ error' = Exc("SystemExit", "Program stopped.")
                  /\ UNCHANGED <<timestamp, last_error>>
             ELSE /\ pc' = "get_api_answer"
                  /\ timestamp' \in StartTimes
                  /\ last_error' = NoError
                  /\ UNCHANGED error
    /\ UNCHANGED <<env, http_response, answer, message, n_fetch, from_date, slept, bot_sent,
                   caught, prev>>

\* line 142: answer = get_api_answer(timestamp); a new cycle starts here.
\* count: the number of calls made once this one is.
Fetch(count) ==
    /\ pc = "get_api_answer"
    /\ \E http \in HttpResults :
         LET r == get_api_answer(http)
         IN /\ http_response' = http
            /\ log' = r.logs
            /\ IF r.ok
               THEN /\ answer' = r.value
                    /\ pc' = "check_response"
                    /\ UNCHANGED error
               ELSE /\ error' = r.error
                    /\ pc' = "except"
                    /\ UNCHANGED answer
    /\ n_fetch' = count
    /\ from_date' = timestamp
    /\ trace' = <<"get_api_answer">>
    /\ bot_sent' = <<>>
    /\ caught' = NoError
    /\ prev' = [caught |-> caught, logged |-> MainLogged(log),
                 last_error |-> last_error]
    /\ UNCHANGED <<env, timestamp, last_error, message, slept>>

\* the call in the first MaxCycles iterations of the loop
GetApiAnswer ==
    /\ n_fetch < MaxCycles
    /\ Fetch(n_fetch + 1)

\* the call in every iteration; calls after the first are not counted
GetApiAnswerLive ==
    Fetch(1)

\* line 143: if check_response(answer)
CheckResponse ==
    /\ pc = "check_response"
    /\ LET r == check_response(answer)
       IN /\ log' = log \o r.logs
          /\ IF ~r.ok
             THEN error' = r.error /\ pc' = "except"
             ELSE /\ UNCHANGED error
                  /\ pc' = IF r.value THEN "parse_status" ELSE "finally"
    /\ trace' = Append(trace, "check_response")
    /\ UNCHANGED <<env, http_response, timestamp, last_error, answer, message, n_fetch,
                   from_date, slept, bot_sent, caught, prev>>

\* line 144, the argument: parse_status(answer['homeworks'][0])
ParseStatus ==
    /\ pc = "parse_status"
    /\ LET r == parse_status(answer.homeworks[1])
       IN /\ log' = log \o r.logs
          /\ IF ~r.ok
             THEN error' = r.error /\ pc' = "except" /\ UNCHANGED message
             ELSE message' = r.value /\ pc' = "send_message" /\ UNCHANGED error
    /\ trace' = Append(trace, "parse_status")
    /\ UNCHANGED <<env, http_response, timestamp, last_error, answer, n_fetch, from_date,
                   slept, bot_sent, caught, prev>>

\* variant: a failed send is attempted a second time before the error is raised
SendMessage_retry ==
    /\ pc = "send_message"
    /\ \E bot_ok \in BOOLEAN :
         LET r == send_message(bot_ok, message)
             again == ~r.ok /\ bot_sent = <<>>
         IN /\ log' = log \o r.logs
            /\ IF again
               THEN UNCHANGED <<error, pc, message>>
               ELSE IF ~r.ok
               THEN error' = r.error /\ pc' = "except" /\ message' = None
               ELSE UNCHANGED error /\ pc' = "finally" /\ message' = None
    /\ bot_sent' = Append(bot_sent, message)
    /\ trace' = Append(trace, "send_message")
    /\ UNCHANGED <<env, http_response, timestamp, last_error, answer, n_fetch, from_date,
                   slept, caught, prev>>

\* line 144, the call: send_message(bot, message)
SendMessage ==
    /\ pc = "send_message"
    /\ \E bot_ok \in BOOLEAN :
         LET r == send_message(bot_ok, message)
         IN /\ log' = log \o r.logs
            /\ IF ~r.ok
               THEN error' = r.error /\ pc' = "except"
               ELSE UNCHANGED error /\ pc' = "finally"
    /\ bot_sent' = Append(bot_sent, message)
    /\ message' = None
    /\ trace' = Append(trace, "send_message")
    /\ UNCHANGED <<env, http_response, timestamp, last_error, answer, n_fetch, from_date,
                   slept, caught, prev>>

\* variant: the sleep in the else branch of the try, so the handler goes
\* straight back to the top of the loop
HandleError_no_finally ==
    /\ pc = "except"
    /\ IsException(error)
    /\ LET msg == "Program failure: " \o error.text
       IN IF error.text # last_error.text
          THEN /\ log' = Append(log, LogRec("ERROR", "main", msg))
               /\ last_error' = error
          ELSE UNCHANGED <<log, last_error>>
    /\ caught' = error
    /\ error' = NoError
    /\ pc' = "get_api_answer"
    /\ UNCHANGED <<env, http_response, timestamp, answer, message, n_fetch, from_date, slept,
                   trace, bot_sent, prev>>

\* variant: the handler without `last_error = error`
HandleError_no_update ==
    /\ pc = "except"
    /\ IsException(error)
    /\ LET msg == "Program failure: " \o error.text
       IN IF error.text # last_error.text
          THEN /\ log' = Append(log, LogRec("ERROR", "main", msg))
               /\ UNCHANGED last_error
          ELSE UNCHANGED <<log, last_error>>
    /\ caught' = error
    /\ error' = NoError
    /\ pc' = "finally"
    /\ UNCHANGED <<env, http_response, timestamp, answer, message, n_fetch, from_date, slept,
                   trace, bot_sent, prev>>

\* variant: the handler also reports a new error to the chat
HandleError_notify ==
    /\ pc = "except"
    /\ IsException(error)
    /\ LET msg == "Program failure: " \o error.text
       IN IF error.text # last_error.text
          THEN /\ log' = Append(log, LogRec("ERROR", "main", msg))
               /\ last_error' = error
               /\ bot_sent' = Append(bot_sent, msg)
          ELSE UNCHANGED <<log, last_error, bot_sent>>
    /\ caught' = error
    /\ error' = NoError
    /\ pc' = "finally"
    /\ UNCHANGED <<env, http_response, timestamp, answer, message, n_fetch, from_date, slept,
                   trace, prev>>

\* variant: the handler lets a delivery failure through, which ends main
HandleError_reraise_send ==
    /\ pc = "except"
    /\ IsException(error)
    /\ IF error.type = "SendMessageError"
       THEN /\ pc' = "terminated"
            /\ UNCHANGED <<log, last_error, caught, error>>
       ELSE /\ LET msg == "Program failure: " \o error.text
               IN IF error.text # last_error.text
                  THEN /\ log' = Append(log, LogRec("ERROR", "main", msg))
                       /\ last_error' = error
                  ELSE UNCHANGED <<log, last_error>>
            /\ caught' = error
            /\ error' = NoError
            /\ pc' = "finally"
    /\ UNCHANGED <<env, http_response, timestamp, answer, message, n_fetch, from_date, slept,
                   trace, bot_sent, prev>>

\* variant: the handler logs every error, without the comparison of line 147
HandleError_always_log ==
    /\ pc = "except"
    /\ IsException(error)
    /\ LET msg == "Program failure: " \o error.text
       IN /\ log' = Append(log, LogRec("ERROR", "main", msg))
          /\ last_error' = error
    /\ caught' = error
    /\ error' = NoError
    /\ pc' = "finally"
    /\ UNCHANGED <<env, http_response, timestamp, answer, message, n_fetch, from_date, slept,
                   trace, bot_sent, prev>>

\* lines 145-149: except Exception as error
HandleError ==
    /\ pc = "except"
    /\ IsException(error)
    /\ LET msg == "Program failure: " \o error.text
       IN IF error.text # last_error.text
          THEN /\ log' = Append(log, LogRec("ERROR", "main", msg))
               /\ last_error' = error
          ELSE UNCHANGED <<log, last_error>>
    /\ caught' = error
    /\ error' = NoError
    /\ pc' = "finally"
    /\ UNCHANGED <<env, http_response, timestamp, answer, message, n_fetch, from_date, slept,
                   trace, bot_sent, prev>>

\* variant: timestamp advanced to the response's current_date after the cycle
Sleep_advance_timestamp ==
    /\ pc = "finally"
    /\ slept' = slept + RETRY_PERIOD
    /\ trace' = Append(trace, "sleep")
    /\ pc' = "get_api_answer"
    /\ timestamp' = IF "current_date" \in answer.keys
                    THEN answer.current_date ELSE timestamp
    /\ UNCHANGED <<env, http_response, last_error, answer, error, message, n_fetch,
                   from_date, log, bot_sent, caught, prev>>

\* variant: the sleep in the except block, so a clean cycle does not sleep
Sleep_in_except ==
    /\ pc = "finally"
    /\ slept' = IF caught # NoError THEN slept + RETRY_PERIOD ELSE slept
    /\ trace' = IF caught # NoError THEN Append(trace, "sleep") ELSE trace
    /\ pc' = "get_api_answer"
    /\ UNCHANGED <<env, http_response, timestamp, last_error, answer, error, message, n_fetch,
                   from_date, log, bot_sent, caught, prev>>

\* variant: a clean cycle forgets the last error (else: last_error = None)
Sleep_reset_last_error ==
    /\ pc = "finally"
    /\ slept' = slept + RETRY_PERIOD
    /\ trace' = Append(trace, "sleep")
    /\ pc' = "get_api_answer"
    /\ last_error' = IF caught = NoError THEN NoError ELSE last_error
    /\ UNCHANGED <<env, http_response, timestamp, answer, error, message, n_fetch,
                   from_date, log, bot_sent, caught, prev>>

\* lines 150-151: finally: time.sleep(RETRY_PERIOD), then the loop repeats
Sleep ==
    /\ pc = "finally"
    /\ slept' = slept + RETRY_PERIOD
    /\ trace' = Append(trace, "sleep")
    /\ pc' = "get_api_answer"
    /\ UNCHANGED <<env, http_response, timestamp, last_error, answer, error, message, n_fetch,
                   from_date, log, bot_sent, caught, prev>>

\* the sleep in every iteration; sleeps after the first are not added up
SleepLive ==
    /\ pc = "finally"
    /\ slept' = RETRY_PERIOD
    /\ trace' = Append(trace, "sleep")
    /\ pc' = "get_api_answer"
    /\ UNCHANGED <<env, http_response, timestamp, last_error, answer, error, message,
                   n_fetch, from_date, log, bot_sent, caught, prev>>

Next ==
    \/ MainStart
    \/ GetApiAnswer
    \/ CheckResponse
    \/ ParseStatus
    \/ SendMessage
    \/ HandleError
    \/ Sleep

Spec == Init /\ [][Next]_vars

\* The loop without a bound on its iterations.  main() is one sequential
\* flow: whenever a statement can run it does, provided the HTTP request, the
\* bot call and the sleep it may be blocked in return or raise.  The counters
\* n_fetch and slept, which observe the run, stop at the first call and sleep.
LiveNext ==
    \/ MainStart
    \/ GetApiAnswerLive
    \/ CheckResponse
    \/ ParseStatus
    \/ SendMessage
    \/ HandleError
    \/ SleepLive

LiveSpec == Init /\ [][LiveNext]_vars /\ WF_vars(LiveNext)

(* parse_status called on its own, repeatedly, with one record *)
ParseInit ==
    /\ env \in {[PRACTICUM_TOKEN |-> "token", TELEGRAM_TOKEN |-> "token",
                 TELEGRAM_CHAT_ID |-> "token"]}
    /\ http_response = NoHttp
    /\ pc = "parse_status"
    /\ timestamp = 0
    /\ last_error = NoError
    /\ answer \in {Body("dict", {"homeworks", "current_date"}, "list", <<h>>, d) :
                       h \in ParseHomeworks, d \in Dates}
    /\ error = NoError
    /\ message = None
    /\ n_fetch = 0
    /\ from_date = 0
    /\ slept = 0
    /\ trace = <<>>
    /\ bot_sent = <<>>
    /\ log = <<>>
    /\ caught = NoError
    /\ prev = [caught |-> NoError, logged |-> FALSE, last_error |-> NoError]

\* one call parse_status(answer['homeworks'][0]); its outcome is kept in
\* message (the returned string) and error (the exception raised)
ParseStatusCall ==
    /\ pc = "parse_status"
    /\ Len(trace) < MaxCalls
    /\ LET r == parse_status(answer.homeworks[1])
       IN /\ log' = log \o r.logs
          /\ message' = r.value
          /\ error' = r.error
    /\ trace' = Append(trace, "parse_status")
    /\ UNCHANGED <<env, http_response, pc, timestamp, last_error, answer, n_fetch,
                   from_date, slept, bot_sent, caught, prev>>

ParseNext == ParseStatusCall
ParseSpec == ParseInit /\ [][ParseNext]_vars

(* --------------------------- claim vocabulary ------------------------- *)
LoopPcs == {"get_api_answer", "check_response", "parse_status", "send_message",
            "except", "finally"}
\* the fetch of the current cycle returned, so `answer` is this cycle's
\* response and check_response has been called on it
CycleChecked == Len(trace) >= 2 /\ trace[2] = "check_response"
\* the current cycle is over: its sleep has been taken
CycleOver == Len(trace) >= 1 /\ trace[Len(trace)] = "sleep"
Called(fn) == \E i \in 1..Len(trace) : trace[i] = fn
TimesCalled(fn) == Cardinality({i \in 1..Len(trace) : trace[i] = fn})
\* the exception of the current cycle, in flight or already handled
Raised == IF error # NoError THEN error ELSE caught
HasBothKeys(r) == r.type = "dict" /\ {"homeworks", "current_date"} \subseteq r.keys
AllConfigured ==
    /\ env.PRACTICUM_TOKEN \notin {None, ""}
    /\ env.TELEGRAM_TOKEN \notin {None, ""}
    /\ env.TELEGRAM_CHAT_ID \notin {None, ""}

(* ------------------------------- claims ------------------------------- *)
\* C1: once check_tokens has passed, an exception raised by any step of a
\* cycle goes to main's handler, the handler goes on to the sleep, the sleep
\* goes back to the top of the loop, and the next step there is a new
\* get_api_answer call; the loop is never left.
C1_FailureIsCaught ==
    [][ /\ (pc \in LoopPcs /\ pc # "except" /\ error' # NoError)
             => (pc' = "except" /\ IsException(error'))
        /\ pc = "except"
             => (pc' = "finally" /\ caught' = error /\ error' = NoError)
        /\ pc = "finally"
             => (pc' = "get_api_answer" /\ trace' = Append(trace, "sleep"))
        /\ pc = "get_api_answer"
             => (n_fetch' = n_fetch + 1 /\ trace' = <<"get_api_answer">>)
        /\ pc \in LoopPcs => pc' \in LoopPcs
      ]_vars
\* a cycle whose send_message failed has been followed by a new fetch
C1_Witness ==
    n_fetch >= 2 /\ prev.caught.type = "SendMessageError" /\ pc = "check_response"

\* C2: with a configuration value empty or unset, main ends in the terminal
\* state with MissingEnviromentVariable and no fetch, no send and no sleep has
\* happened; with all three set, main is in the loop.
C2_TokensGate ==
    /\ (pc # "main" /\ ~AllConfigured) =>
          /\ pc = "terminated"
          /\ error.type = "MissingEnviromentVariable"
          /\ n_fetch = 0 /\ slept = 0 /\ bot_sent = <<>>
          /\ trace = <<"check_tokens">>
          /\ \E i \in 1..Len(log) : log[i].level = "CRITICAL"
    /\ (pc # "main" /\ AllConfigured) => pc \in LoopPcs
C2_Witness ==
    /\ pc = "terminated"
    /\ env.PRACTICUM_TOKEN = "token" /\ env.TELEGRAM_TOKEN = "token"
    /\ env.TELEGRAM_CHAT_ID = None

\* C3 as stated: of two consecutive failed cycles, main's handler does not log
\* the second when the texts are equal, and logs both when the texts differ.
C3_AsStated ==
    (pc = "finally" /\ caught # NoError /\ prev.caught # NoError) =>
        IF caught.text = prev.caught.text
        THEN ~MainLogged(log)
        ELSE MainLogged(log) /\ prev.logged
\* C3 amended: of two consecutive failed cycles, main's handler logs the second
\* exactly when its text differs from the first's; the first was logged only
\* if its text differed from last_error as the cycle before it left it.
C3_SecondLoggedIffDifferent ==
    (pc = "finally" /\ caught # NoError /\ prev.caught # NoError) =>
        /\ MainLogged(log) <=> caught.text # prev.caught.text
        /\ last_error.text = caught.text
        /\ prev.last_error.text = prev.caught.text
\* errors A, A, B: the middle cycle was not logged, the third is
C3_Witness ==
    /\ pc = "finally" /\ caught # NoError /\ prev.caught # NoError
    /\ caught.text # prev.caught.text /\ MainLogged(log) /\ ~prev.logged

\* C4: a response with both keys and an empty 'homeworks' list makes
\* check_response return False: the cycle goes from check_response to the
\* sleep, parse_status and send_message are not called, nothing is raised,
\* no error is logged and last_error stays as the cycle found it.
C4_EmptyHomeworks ==
    (CycleChecked /\ HasBothKeys(answer) /\ answer.homeworks_type = "list"
        /\ answer.homeworks = <<>>) =>
        /\ pc \in {"finally", "get_api_answer"}
        /\ Raised = NoError
        /\ ~Called("parse_status") /\ ~Called("send_message")
        /\ bot_sent = <<>>
        /\ \A i \in 1..Len(log) : log[i].level # "ERROR"
        /\ last_error = prev.last_error
C4_Witness ==
    /\ CycleChecked /\ CycleOver /\ HasBothKeys(answer)
    /\ answer.homeworks_type = "list" /\ answer.homeworks = <<>>
    /\ last_error # NoError

\* C5: a dict response lacking 'homeworks' or 'current_date' fails with the
\* KeyError of check_response, also when 'homeworks' is present and no list;
\* with both keys and a 'homeworks' that is no list it fails with TypeError;
\* in both cases nothing is sent in the cycle.
C5_MissingKeyBeforeType ==
    (CycleChecked /\ answer.type = "dict") =>
        /\ ~HasBothKeys(answer) =>
              /\ Raised = Exc("KeyError", "'Expected keys are missing in the API response'")
              /\ bot_sent = <<>> /\ ~Called("parse_status")
        /\ (HasBothKeys(answer) /\ answer.homeworks_type # "list") =>
              /\ Raised = Exc("TypeError", "API response key value is not a list")
              /\ bot_sent = <<>> /\ ~Called("parse_status")
\* 'homeworks' present and no list, 'current_date' absent: KeyError
C5_Witness ==
    /\ CycleChecked /\ answer.type = "dict"
    /\ answer.keys = {"homeworks"} /\ answer.homeworks_type # "list"
    /\ caught.type = "KeyError"

\* element 0 of this cycle's response is a dict that holds a 'status' value
FirstHasStatus(r) ==
    /\ HasBothKeys(r) /\ r.homeworks_type = "list" /\ Len(r.homeworks) >= 1
    /\ r.homeworks[1].type = "dict" /\ r.homeworks[1].status # Absent
Recognized == {"approved", "reviewing", "rejected"}

\* C6 as stated: when element 0 holds a 'status' value that is none of the
\* three recognized codes, check_response fails with NoMatchStatusHomework and
\* parse_status and send_message are not called in the cycle.
C6_AsStated ==
    (CycleChecked /\ FirstHasStatus(answer)
        /\ answer.homeworks[1].status \notin Recognized) =>
        /\ Raised.type = "NoMatchStatusHomework"
        /\ ~Called("parse_status") /\ ~Called("send_message")
\* C6 for hashable values only: an unrecognized 'status' string fails with
\* NoMatchStatusHomework; whatever the value, nothing is parsed or sent.
C6_HashableStatus ==
    (CycleChecked /\ FirstHasStatus(answer)
        /\ answer.homeworks[1].status \notin Recognized) =>
        /\ answer.homeworks[1].status # Unhashable
              => Raised = Exc("NoMatchStatusHomework",
                              "Unknown homework status in the API response")
        /\ ~Called("parse_status") /\ ~Called("send_message") /\ bot_sent = <<>>

\* element 0 has a non-empty homework_name and a recognized status
GoodFirst(r) ==
    /\ FirstHasStatus(r)
    /\ r.homeworks[1].homework_name \notin {Absent, ""}
    /\ r.homeworks[1].status \in Recognized
\* the message the source's f-string gives for element 0
Expected(r) ==
    "Changed review status for \"" \o r.homeworks[1].homework_name \o "\". "
        \o HOMEWORK_VERDICTS[r.homeworks[1].status]

\* C7: in a cycle whose response has both keys and a first record with a
\* non-empty homework_name and a recognized status, check_response returns
\* True, parse_status gives the message of that record, and send_message is
\* called exactly once in the cycle, with that message.
C7_GoodRecordIsSentOnce ==
    (CycleChecked /\ GoodFirst(answer)) =>
        /\ pc = "parse_status" \/ Called("parse_status")
        /\ pc \in {"parse_status", "send_message"} =>
              (bot_sent = <<>> /\ ~Called("send_message"))
        /\ pc = "send_message" => message = Expected(answer)
        /\ pc \in {"except", "finally", "get_api_answer"} =>
              /\ bot_sent = <<Expected(answer)>>
              /\ TimesCalled("send_message") = 1
              /\ TimesCalled("parse_status") = 1
        /\ Raised # NoError => Raised.type = "SendMessageError"
C7_Witness ==
    /\ CycleChecked /\ CycleOver /\ GoodFirst(answer)
    /\ Len(answer.homeworks) = 2
    /\ bot_sent = <<"Changed review status for \"lab1\". Work reviewed: the reviewer has remarks.">>

\* C8: whatever the bot was given in a cycle is the rendering of element 0 of
\* the response fetched in that cycle, whose status is recognized; it is
\* never the text of an error, in flight, handled, remembered or logged.
C8_OnlyVerdictsAreSent ==
    /\ Len(bot_sent) <= 1
    /\ \A i \in 1..Len(bot_sent) :
          /\ CycleChecked /\ Called("parse_status") /\ FirstHasStatus(answer)
          /\ answer.homeworks[1].status \in Recognized
          /\ bot_sent[i] = Expected(answer)
          /\ bot_sent[i] \notin {Raised.text, last_error.text}
          /\ \A j \in 1..Len(log) :
                log[j].level \in {"ERROR", "CRITICAL"} => log[j].msg # bot_sent[i]
\* a message was handed to the bot, the send failed and the failure was logged
C8_Witness ==
    bot_sent # <<>> /\ caught.type = "SendMessageError" /\ MainLogged(log)

\* C9: after startup no step changes timestamp, and every get_api_answer call
\* is made with it: each request carries the from_date of the one before.
C9_TimestampFixed ==
    [][ /\ pc # "main" => timestamp' = timestamp
        /\ n_fetch' # n_fetch =>
              /\ from_date' = timestamp
              /\ n_fetch >= 1 => from_date' = from_date
      ]_vars
\* a third request, after a cycle that succeeded with a current_date
C9_Witness ==
    /\ n_fetch = 3 /\ prev.caught = NoError /\ CycleChecked
    /\ from_date \in StartTimes /\ from_date = timestamp

\* C10: no sleep before the first fetch, and one sleep of 600 seconds between
\* two consecutive fetches, after a clean cycle and after a failed one alike.
C10_OneSleepPerCycle ==
    /\ RETRY_PERIOD = 600
    /\ pc \in {"main", "terminated"} => slept = 0
    /\ pc \in LoopPcs \ {"get_api_answer"} =>
          (slept = 600 * (n_fetch - 1) /\ ~Called("sleep"))
    /\ pc = "get_api_answer" =>
          /\ slept = 600 * n_fetch
          /\ n_fetch >= 1 => (CycleOver /\ TimesCalled("sleep") = 1)
\* third fetch after two failed cycles and after a clean then a failed one
C10_Witness ==
    /\ n_fetch = 3 /\ pc = "check_response" /\ slept = 1200
    /\ prev.caught # NoError /\ ~prev.logged

\* the calls of the current cycle without its closing sleep
Steps == IF CycleOver THEN SubSeq(trace, 1, Len(trace) - 1) ELSE trace
FetchErrors == {"GetRequestError", "StatusCodeNotOK", "JsonConvertingError"}

\* C11: a cycle is one get_api_answer call followed by at most one call each
\* of check_response, parse_status and send_message, in that order; once a
\* step has raised, no further step of the cycle runs and none is repeated:
\* the only call that follows is the sleep.
C11_NoRetryInCycle ==
    n_fetch >= 1 =>
        /\ Steps \in {<<"get_api_answer">>,
                      <<"get_api_answer", "check_response">>,
                      <<"get_api_answer", "check_response", "parse_status">>,
                      <<"get_api_answer", "check_response", "parse_status",
                        "send_message">>}
        /\ Len(bot_sent) = TimesCalled("send_message") /\ Len(bot_sent) <= 1
        /\ Raised # NoError =>
              /\ pc \in {"except", "finally", "get_api_answer"}
              /\ Raised.type \in FetchErrors <=> Steps = <<"get_api_answer">>
              /\ Raised.type = "SendMessageError" <=> Called("send_message")
              /\ Raised.type \in {"IncorrectHomeworkStatus"} => Len(Steps) = 3
              /\ ~Called("send_message") => bot_sent = <<>>
\* a cycle whose send failed: one send, then the sleep
C11_Witness ==
    /\ caught.type = "SendMessageError"
    /\ trace = <<"get_api_answer", "check_response", "parse_status",
                 "send_message", "sleep">>
    /\ Len(bot_sent) = 1

\* C12: with the three configuration values set, and every statement that can
\* run eventually running, get_api_answer is called again and again without
\* end, whatever the requests, the checks and the sends return or raise.
C12_FetchesForever ==
    AllConfigured => []<><<GetApiAnswerLive>>_vars
\* a fetch has returned after a cycle whose send failed with the text an
\* earlier cycle had logged: the third call at least
C12_Witness ==
    /\ pc = "check_response" /\ trace = <<"get_api_answer">>
    /\ prev.caught.type = "SendMessageError" /\ ~prev.logged

\* the error-level records of the current cycle
ErrorRecords == SelectSeq(log, LAMBDA rec : rec.level = "ERROR")
\* this cycle and the one before it both failed, with the same text
RepeatedFailure ==
    /\ pc = "finally" /\ caught # NoError /\ prev.caught # NoError
    /\ caught.text = prev.caught.text

\* C13 as stated: when two consecutive cycles fail with the same text, the
\* second cycle emits no error-level log record at all, the records of
\* send_message counted too, for every kind of error.
C13_AsStated ==
    RepeatedFailure => ErrorRecords = <<>>
\* C13 amended: in the second of two consecutive cycles failing with the same
\* text main's handler emits no record; for every error but SendMessageError
\* the cycle has no error-level record at all; a repeated SendMessageError
\* leaves the one error record send_message itself writes on every failure.
C13_OnlyMainSuppresses ==
    RepeatedFailure =>
        /\ ~MainLogged(log)
        /\ caught.type # "SendMessageError" => ErrorRecords = <<>>
        /\ caught.type = "SendMessageError" =>
              ErrorRecords = <<LogRec("ERROR", "send_message",
                                      "Failure sending message to chat")>>
\* a second consecutive delivery failure, logged by send_message alone
C13_Witness ==
    RepeatedFailure /\ caught.type = "SendMessageError" /\ Len(ErrorRecords) = 1

\* C14: main's handler logs the error of a failing cycle exactly when its text
\* differs from that of last_error, and only then stores it in last_error; no
\* other step of the loop changes last_error.  So last_error is the error
\* logged most recently (None before the first), a clean cycle keeps it, and
\* the same text coming back after clean cycles is not logged again.
C14_LoggedIffNewText ==
    [][ /\ pc = "except" =>
              /\ MainLogged(log') <=> error.text # last_error.text
              /\ error.text # last_error.text =>
                    /\ last_error' = error
                    /\ log' = Append(log, LogRec("ERROR", "main",
                                                 "Program failure: " \o error.text))
              /\ error.text = last_error.text =>
                    (last_error' = last_error /\ log' = log)
        /\ (pc \in LoopPcs /\ pc # "except") =>
              (last_error' = last_error /\ (MainLogged(log') => MainLogged(log)))
      ]_vars
\* the third cycle fails with the text of the first, the second was clean:
\* nothing is logged
C14_Witness ==
    /\ pc = "finally" /\ caught # NoError /\ ~MainLogged(log)
    /\ prev.caught = NoError /\ last_error.text = caught.text

\* the response with the records after element 0 removed
HeadOnly(r) ==
    IF Len(r.homeworks) = 0 THEN r
    ELSE [r EXCEPT !.homeworks = <<r.homeworks[1]>>]
\* two responses that differ at most in the records after element 0
SameHead(a, b) == HeadOnly(a) = HeadOnly(b)

\* two calls returned the same value or raised the same exception
SameResult(x, y) ==
    /\ x.ok = y.ok /\ x.error = y.error /\ x.logs = y.logs
    /\ (x.ok /\ y.ok) => x.value = y.value

\* C15: the outcome of a cycle is the outcome its response has with the
\* records after element 0 removed: every response with the same keys and the
\* same element 0 gets the same check_response result or error, and what the
\* cycle raised, rendered, sent and left in last_error is what element 0
\* alone gives (with the bot's answer and the earlier last_error).
C15_OnlyFirstRecordCounts ==
    (CycleChecked /\ HasBothKeys(answer) /\ answer.homeworks_type = "list"
        /\ Len(answer.homeworks) >= 1) =>
        LET h == HeadOnly(answer)
            c == check_response(h)
            p == parse_status(h.homeworks[1])
        IN /\ \A b \in Bodies :
                 SameHead(b, answer) => SameResult(check_response(b), check_response(answer))
           /\ ~c.ok => (Raised = c.error /\ bot_sent = <<>> /\ ~Called("parse_status"))
           /\ c.ok => (pc = "parse_status" \/ Called("parse_status"))
           /\ (Called("parse_status") /\ ~p.ok) => (Raised = p.error /\ bot_sent = <<>>)
           /\ (Called("parse_status") /\ p.ok) =>
                 \/ pc = "send_message" /\ message = p.value /\ bot_sent = <<>>
                 \/ /\ bot_sent = <<p.value>>
                    /\ Raised.type \in {"NoneType", "SendMessageError"}
           /\ pc \in {"finally", "get_api_answer"} =>
                 last_error = IF Raised # NoError /\ Raised.text # prev.last_error.text
                              THEN Raised ELSE prev.last_error
\* a good element 0 followed by a record with an unknown status: sent
C15_Witness ==
    /\ CycleChecked /\ CycleOver /\ HasBothKeys(answer)
    /\ Len(answer.homeworks) = 2
    /\ answer.homeworks[2] = Homework("lab2", "unknown")
    /\ bot_sent = <<"Changed review status for \"lab1\". Work reviewed: the reviewer liked everything. Hooray!">>

\* the text of StatusCodeNotOK for a status code
NotOKText(code) ==
    CASE code = 404 -> "Request status is not OK! Request status: 404"
      [] code = 500 -> "Request status is not OK! Request status: 500"
      [] OTHER -> "Request status is not OK! Request status: other"
\* the fetch of the current cycle raised
FetchFailed == n_fetch >= 1 /\ ~CycleChecked /\ pc # "check_response"

C16_ReturnsUnvalidated ==
    /\ CycleChecked /\ answer.type = "list" /\ caught.type = "TypeError"

\* the record parse_status is called with, once it has been called
ParsedRecord == answer.homeworks[1]
ParseCalled == pc = "parse_status" /\ Len(trace) >= 1 /\ trace[1] = "parse_status"

\* C17, as stated: parse_status fails in a fixed order (TypeError for a
\* non-dict, KeyError naming the missing key with 'homework_name' first,
\* IncorrectHomeworkStatus for an unrecognized status or an empty name) and
\* otherwise returns the template string of the name and the verdict.
C17_AsStated ==
    ParseCalled =>
        LET h == ParsedRecord
        IN /\ h.type # "dict" => error.type = "TypeError"
           /\ (h.type = "dict" /\ h.homework_name = Absent) =>
                 error = KeyErrorOf("homework lacks the key homework_name")
           /\ (h.type = "dict" /\ h.homework_name # Absent /\ h.status = Absent) =>
                 error = KeyErrorOf("homework lacks the key status")
           /\ (h.type = "dict" /\ h.homework_name # Absent /\ h.status # Absent
                  /\ (h.status \notin Recognized \/ h.homework_name = "")) =>
                 error = Exc("IncorrectHomeworkStatus",
                             "Empty or undocumented homework status")
           /\ (h.type = "dict" /\ h.homework_name \notin {Absent, ""}
                  /\ h.status \in Recognized) =>
                 /\ error = NoError
                 /\ message = Render(h.homework_name, HOMEWORK_VERDICTS[h.status])
\* C17 for hashable values: the order of C17 holds for every record whose
\* 'status' is hashable; an unhashable 'status' fails with TypeError once
\* both keys are present, whatever the name.
C17_HashableStatus ==
    ParseCalled =>
        LET h == ParsedRecord
        IN /\ h.type # "dict" => error = Exc("TypeError", "homework is not a dict")
           /\ (h.type = "dict" /\ h.homework_name = Absent) =>
                 error = KeyErrorOf("homework lacks the key homework_name")
           /\ (h.type = "dict" /\ h.homework_name # Absent /\ h.status = Absent) =>
                 error = KeyErrorOf("homework lacks the key status")
           /\ (h.type = "dict" /\ h.homework_name # Absent
                  /\ h.status = Unhashable) =>
                 error = Exc("TypeError", "unhashable type: 'list'")
           /\ (h.type = "dict" /\ h.homework_name # Absent
                  /\ h.status \notin {Absent, Unhashable}
                  /\ (h.status \notin Recognized \/ h.homework_name = "")) =>
                 error = Exc("IncorrectHomeworkStatus",
                             "Empty or undocumented homework status")
           /\ (h.type = "dict" /\ h.homework_name \notin {Absent, ""}
                  /\ h.status \in Recognized) =>
                 /\ error = NoError
                 /\ message = Render(h.homework_name, HOMEWORK_VERDICTS[h.status])
\* C17, purity: a call after the first gives the result of the first, and no
\* call changes the record or anything else but the result and the call list.
C17_SameResultEveryCall ==
    [][/\ ParseCalled => (message' = message /\ error' = error)
       /\ answer' = answer /\ last_error' = last_error /\ timestamp' = timestamp
       /\ log' = log /\ bot_sent' = bot_sent]_vars
\* an unhashable 'status' with a name, parsed more than once
C17_Witness ==
    /\ ParseCalled /\ Len(trace) >= 2
    /\ ParsedRecord.status = Unhashable /\ ParsedRecord.homework_name = "lab1"
    /\ error.type = "TypeError"

\* element 0 has a recognized status and a homework_name missing or empty
NamelessFirst(r) ==
    /\ FirstHasStatus(r)
    /\ r.homeworks[1].status \in Recognized
    /\ r.homeworks[1].homework_name \in {Absent, ""}
\* what parse_status raises for such a record
NamelessError(r) ==
    IF r.homeworks[1].homework_name = Absent
    THEN KeyErrorOf("homework lacks the key homework_name")
    ELSE Exc("IncorrectHomeworkStatus", "Empty or undocumented homework status")

\* C18: in a cycle whose first record has a recognized status and a missing
\* or empty homework_name, check_response returns True and parse_status is
\* called; parse_status fails with KeyError (name missing) or
\* IncorrectHomeworkStatus (name empty); send_message is not called and the bot
\* is given nothing; main's handler receives the error, logs it exactly when
\* its text differs from that of last_error, and remembers it.
C18_TrueButNoNotification ==
    (CycleChecked /\ NamelessFirst(answer)) =>
        /\ \E i \in 1..Len(log) :
              log[i] = LogRec("INFO", "check_response", "Checking the API response: OK")
        /\ pc = "parse_status" \/ Called("parse_status")
        /\ ~Called("send_message") /\ bot_sent = <<>> /\ message = None
        /\ pc # "send_message"
        /\ Called("parse_status") =>
              /\ TimesCalled("parse_status") = 1
              /\ Raised = NamelessError(answer)
        /\ pc \in {"finally", "get_api_answer"} =>
              /\ caught = NamelessError(answer)
              /\ last_error = caught
              /\ MainLogged(log) <=> (caught.text # prev.last_error.text)
\* the error of an empty name, met a second time in a row and not logged again
C18_Witness ==
    /\ CycleChecked /\ CycleOver /\ NamelessFirst(answer)
    /\ answer.homeworks[1].homework_name = ""
    /\ caught.type = "IncorrectHomeworkStatus"
    /\ prev.caught = caught
    /\ ~MainLogged(log)
\* the same with the key missing: a KeyError, logged
C18_WitnessMissingKey ==
    /\ CycleChecked /\ CycleOver /\ NamelessFirst(answer)
    /\ answer.homeworks[1].homework_name = Absent
    /\ caught.type = "KeyError"
    /\ MainLogged(log)

====
